---- MODULE Spec2Model ----
(***************************************************************************)
(* Model of the task manager's bulk-complete engine                        *)
(* (internal/service/task_service.go, taskService.BulkComplete) together   *)
(* with the service and repository calls it makes (GetByID, FindByID,      *)
(* Update) and the tasks table they act on.                                *)
(*                                                                         *)
(* Go strings are modelled as sequences of one-character strings, so that  *)
(* strconv.Atoi, fmt.Sprintf("%d") and the database's text-to-integer      *)
(* coercion are computed character by character.                           *)
(***************************************************************************)
EXTENDS Integers, Sequences, FiniteSets, Bags, TLC

(***************************************************************************)
(* Bounds of the model.                                                    *)
(***************************************************************************)
\* longest req.TaskIDs list drawn from TaskIDPool
MaxLen == 3

\* how many calls in sequence the repeated-call specification makes
MaxCalls == 2

\* how many single-task calls are made next to a BulkComplete call
MaxOps == 2

\* how many space-separated words an Authorization header has at most
MaxParts == 3

(***************************************************************************)
(* Program constants.                                                      *)
(***************************************************************************)
\* numWorkers := 5
numWorkers == 5

\* domain.TaskStatus
TaskStatusTodo == "todo"
TaskStatusInProgress == "in_progress"
TaskStatusDone == "done"

(***************************************************************************)
(* Strings and integer conversions.                                        *)
(***************************************************************************)
Digits == <<"0", "1", "2", "3", "4", "5", "6", "7", "8", "9">>

IsDigit(c) == \E d \in 1..10 : Digits[d] = c

DigitVal(c) == (CHOOSE d \in 1..10 : Digits[d] = c) - 1

AllDigits(s) == Len(s) > 0 /\ \A j \in 1..Len(s) : IsDigit(s[j])

RECURSIVE DecVal(_)
DecVal(s) ==
    IF s = <<>> THEN 0
    ELSE DecVal(SubSeq(s, 1, Len(s) - 1)) * 10 + DigitVal(s[Len(s)])

StripSign(s) == IF s # <<>> /\ s[1] \in {"+", "-"} THEN Tail(s) ELSE s

\* strconv.Atoi: an optional sign followed by one or more decimal digits;
\* anything else (spaces included) is a syntax error and yields 0.
Atoi(s) ==
    LET body == StripSign(s)
        ok == AllDigits(body)
    IN  [ok  |-> ok,
         val |-> IF ~ok THEN 0
                 ELSE IF s[1] = "-" THEN 0 - DecVal(body) ELSE DecVal(body)]

\* fmt.Sprintf("%d", n) for n >= 0, as used for the user ID in the JWT claims
RECURSIVE Itoa(_)
Itoa(n) ==
    IF n < 10 THEN <<Digits[n + 1]>>
    ELSE Itoa(n \div 10) \o <<Digits[(n % 10) + 1]>>

RECURSIVE TrimLeft(_)
TrimLeft(s) == IF s # <<>> /\ s[1] = " " THEN TrimLeft(Tail(s)) ELSE s

RECURSIVE TrimRight(_)
TrimRight(s) ==
    IF s # <<>> /\ s[Len(s)] = " " THEN TrimRight(SubSeq(s, 1, Len(s) - 1)) ELSE s

\* The text parameter $1 of "WHERE id = $1" is coerced by the database to the
\* integer type of tasks.id: surrounding white space is skipped, then an
\* optional sign and decimal digits; any other text is an input-syntax error.
PgInt4In(s) == Atoi(TrimRight(TrimLeft(s)))

(***************************************************************************)
(* Domain values.                                                          *)
(***************************************************************************)
\* (*domain.Task)(nil)
NoTask == [id |-> 0]

\* error values; a wrapped error keeps its cause after the colon
Nil == "nil"
ErrNoTaskIDs == "no task IDs provided"
ErrInvalidUserID == "invalid user ID"
ErrTaskNotFound == "failed to find task: task not found with id"
ErrFindByID == "failed to find task: failed to find task by id"
ErrAccessDenied == "access denied: task does not belong to user"
ErrInvalidTaskID == "invalid task ID"
ErrUpdateExec == "failed to update task: failed to update task"
ErrUpdateNoRows == "failed to update task: task not found or not owned by user"

\* (*dto.BulkCompleteResponse)(nil)
NoResponse == [SuccessCount |-> -1]

(***************************************************************************)
(* Inputs: the users and tasks present when the call is made, and the      *)
(* requests drawn for it.                                                  *)
(***************************************************************************)
UserA == 1
UserB == 2

T1 == Itoa(1)
T2 == Itoa(2)
T3 == Itoa(3)
nonexistent == <<"n", "o", "n", "e", "x", "i", "s", "t", "e", "n", "t">>
\* a numeric identifier no row carries
T9 == Itoa(9)
\* text the database resolves to task 1 and strconv.Atoi rejects
T1Spaced == <<" ", "1">>

InitStore ==
    (1 :> [id |-> 1, user_id |-> UserA, title |-> "t1", description |-> "d1",
           status |-> TaskStatusTodo, created_at |-> 0, updated_at |-> 0]) @@
    (2 :> [id |-> 2, user_id |-> UserA, title |-> "t2", description |-> "d2",
           status |-> TaskStatusInProgress, created_at |-> 0, updated_at |-> 0]) @@
    (3 :> [id |-> 3, user_id |-> UserB, title |-> "t3", description |-> "d3",
           status |-> TaskStatusTodo, created_at |-> 0, updated_at |-> 0])

TaskIDPool == {T1, T3, T9, T1Spaced}

\* requests shorter than, as long as and longer than the worker pool
FiveFailThenOwned == <<T9, T3, T9, T3, T9, T1>>
Mixed5 == <<T1, T3, T9, T1Spaced, T2>>
Mixed2 == <<T3, T1>>

LongRequests == {FiveFailThenOwned, Mixed5, Mixed2}

FourFailThenOwned == <<T3, T9, T3, T9, T1>>

FairRequests == {FiveFailThenOwned, FourFailThenOwned, Mixed2}

\* a store with more tasks of user A than there are workers: InitStore and
\* tasks 4..7 of user A
T4 == Itoa(4)
T5 == Itoa(5)
T6 == Itoa(6)
T7 == Itoa(7)

LongStore ==
    InitStore @@
    [id \in 4..7 |-> [id |-> id, user_id |-> UserA, title |-> "t", description |-> "d",
                      status |-> TaskStatusTodo, created_at |-> 0, updated_at |-> 0]]

\* more distinct tasks of user A than there are workers
AllOwned6 == <<T1, T2, T4, T5, T6, T7>>

\* the concrete scenario BulkComplete(A, [T1, T2, T3, "nonexistent"])
ScenarioTaskIDs == <<T1, T2, T3, nonexistent>>

SeqsUpTo(S, n) == UNION {[1..m -> S] : m \in 0..n}

Requests == SeqsUpTo(TaskIDPool, MaxLen) \cup {ScenarioTaskIDs}

\* user IDs as the auth middleware hands them over, and one that is no integer
UserIDs == {Itoa(UserA), Itoa(UserB), <<"u", "1">>}

(***************************************************************************)
(* Repository and service calls (pure in the store they read).             *)
(***************************************************************************)
\* taskRepository.FindByID: SELECT ... FROM tasks WHERE id = $1
FindByID(id, st) ==
    LET n == PgInt4In(id)
    IN  IF ~n.ok THEN [task |-> NoTask, err |-> ErrFindByID]
        ELSE IF n.val \notin DOMAIN st THEN [task |-> NoTask, err |-> ErrTaskNotFound]
        ELSE [task |-> st[n.val], err |-> Nil]

\* GetByID with the ownership verification lost
GetByIDNoOwnerCheck(taskID, uid, st) ==
    LET u == Atoi(uid)
        found == FindByID(taskID, st)
    IN  IF ~u.ok THEN [task |-> NoTask, err |-> ErrInvalidUserID]
        ELSE found

\* taskService.GetByID
GetByID(taskID, uid, st) ==
    LET u == Atoi(uid)
        found == FindByID(taskID, st)
    IN  IF ~u.ok THEN [task |-> NoTask, err |-> ErrInvalidUserID]
        ELSE IF found.err # Nil THEN found
        ELSE IF found.task.user_id # u.val THEN [task |-> NoTask, err |-> ErrAccessDenied]
        ELSE found

\* queryUpdateTask with its WHERE clause lost: every row matches
UpdateMatchesNoWhere(task, st) == DOMAIN st

\* queryUpdateTask counting only the rows whose status it changes
UpdateMatchesChangedOnly(task, st) ==
    {r \in DOMAIN st : st[r].id = task.ID /\ st[r].user_id = task.UserID
                        /\ st[r].status # task.Status}

\* the rows queryUpdateTask matches: WHERE id = $5 AND user_id = $6
UpdateMatches(task, st) ==
    {r \in DOMAIN st : st[r].id = task.ID /\ st[r].user_id = task.UserID}

\* queryUpdateTask: SET title = $1, description = $2, status = $3, updated_at = $4
UpdateRows(task, st) ==
    [r \in DOMAIN st |->
        IF r \in UpdateMatches(task, st)
        THEN [st[r] EXCEPT !.title = task.Title, !.description = task.Description,
                           !.status = task.Status, !.updated_at = task.UpdatedAt]
        ELSE st[r]]

\* taskRepository.Update on a statement that inserts the row when none matches
UpdateUpserts(task, st, execOK) ==
    IF ~execOK THEN [store |-> st, err |-> ErrUpdateExec]
    ELSE IF UpdateMatches(task, st) = {}
    THEN [store |-> (task.ID :> [id |-> task.ID, user_id |-> task.UserID,
                                 title |-> task.Title, description |-> task.Description,
                                 status |-> task.Status, created_at |-> task.UpdatedAt,
                                 updated_at |-> task.UpdatedAt]) @@ st,
          err |-> Nil]
    ELSE [store |-> UpdateRows(task, st), err |-> Nil]

\* taskRepository.Update; execOK is whether ExecContext returned without error
Update(task, st, execOK) ==
    IF ~execOK THEN [store |-> st, err |-> ErrUpdateExec]
    ELSE IF UpdateMatches(task, st) = {} THEN [store |-> st, err |-> ErrUpdateNoRows]
    ELSE [store |-> UpdateRows(task, st), err |-> Nil]

\* the built task with the fetched status copied instead of TaskStatusDone
DoneTaskKeepsStatus(taskIDInt, uidInt, existingTask, t) ==
    [ID |-> taskIDInt, UserID |-> uidInt, Title |-> existingTask.title,
     Description |-> existingTask.description, Status |-> existingTask.status,
     UpdatedAt |-> t]

\* the built task with Title and Description left at their zero values
DoneTaskNoCopy(taskIDInt, uidInt, existingTask, t) ==
    [ID |-> taskIDInt, UserID |-> uidInt, Title |-> "", Description |-> "",
     Status |-> TaskStatusDone, UpdatedAt |-> t]

\* the domain.Task a worker builds from the fetched task
DoneTask(taskIDInt, uidInt, existingTask, t) ==
    [ID |-> taskIDInt, UserID |-> uidInt, Title |-> existingTask.title,
     Description |-> existingTask.description, Status |-> TaskStatusDone,
     UpdatedAt |-> t]

(***************************************************************************)
(* Channels.                                                               *)
(***************************************************************************)
\* make(chan T, n)
MakeChan == [buf |-> <<>>, closed |-> FALSE]

\* v := <-ch on a channel that is closed or holds a value: the oldest buffered
\* value, or the zero value once a closed channel is drained
Recv(ch, zero) == IF ch.buf = <<>> THEN zero ELSE Head(ch.buf)

AfterRecv(ch) == IF ch.buf = <<>> THEN ch ELSE [ch EXCEPT !.buf = Tail(ch.buf)]

(***************************************************************************)
(* State.                                                                  *)
(***************************************************************************)
VARIABLES
    userID,        \* argument userID
    TaskIDs,       \* argument req.TaskIDs
    store,         \* the tasks table, by id
    now,           \* the clock read by time.Now()
    pc,            \* where the calling goroutine is
    userIDInt,     \* local userIDInt
    taskIDsChan,   \* chan string of capacity numWorkers; element k stands for
                   \* req.TaskIDs[k], the k-th identifier the feeder sent
    resultsChan,   \* chan error of capacity len(req.TaskIDs)
    feeder,        \* the sending goroutine: where it is and the index it sends next
    workers,       \* the worker goroutines, a bag of their local states
    i,             \* collect loop index (0-based)
    successCount,  \* local successCount
    failedIDs,     \* local failedIDs
    ret,           \* the returned (response, error) pair
    outcome,       \* history: the value a worker produced for input position k
    fetched,       \* history: the task (id, owner) GetByID returned for position k
    calls,         \* history: how often position k was dequeued, passed to GetByID
                   \* and passed to taskRepo.Update
    earlier,       \* history: the results of the calls made before this one
    op,            \* the single-task call (Create, GetByID, Update, Delete) in progress
    serial,        \* the sequence behind "id SERIAL": the last ID handed out
    ginCtx,        \* the gin.Context of a request to a protected route
    tx             \* a WithTransaction call and the transaction it began

vars == <<userID, TaskIDs, store, now, pc, userIDInt, taskIDsChan, resultsChan,
          feeder, workers, i, successCount, failedIDs, ret, outcome, fetched,
          calls, earlier, op, serial, ginCtx, tx>>

\* the state outside BulkComplete
others == <<op, serial, ginCtx, tx>>

\* no single-task call, no request and no transaction is under way
NoOp == [pc |-> "none", n |-> 0]
NoRequest == [pc |-> "none"]
NoTx == [pc |-> "none", n |-> 0, seen |-> <<>>]

\* the highest ID the sequence has handed out for the rows of st
LastID(st) == CHOOSE n \in DOMAIN st : \A m \in DOMAIN st : m <= n

InitOthers(st) ==
    /\ op = NoOp
    /\ serial = LastID(st)
    /\ ginCtx = NoRequest
    /\ tx = NoTx

\* what the history keeps of a fetched task: which row it is and who owns it
Fetched(task) == [id |-> task.id, user_id |-> task.user_id]

\* a worker blocked in "for taskID := range taskIDsChan"
WorkerRange == [pc |-> "range", k |-> 0, existingTask |-> NoTask, err |-> Nil]

\* a worker that left the loop and ran wg.Done()
WorkerDone == [pc |-> "done", k |-> 0, existingTask |-> NoTask, err |-> Nil]

\* the history of a call that has not started: nothing dequeued, no GetByID,
\* no taskRepo.Update
NoCalls(ids) == [k \in 1..Len(ids) |-> [dequeue |-> 0, GetByID |-> 0, Update |-> 0]]

Step(w, w2) == (workers (-) SetToBag({w})) (+) SetToBag({w2})

Init ==
    /\ userID \in UserIDs
    /\ TaskIDs \in Requests
    /\ store = InitStore
    /\ now = 1
    /\ pc = "call"
    /\ userIDInt = 0
    /\ taskIDsChan = MakeChan
    /\ resultsChan = MakeChan
    /\ feeder = [pc |-> "none", next |-> 1]
    /\ workers = EmptyBag
    /\ i = 0
    /\ successCount = 0
    /\ failedIDs = <<>>
    /\ ret = [resp |-> NoResponse, err |-> Nil]
    /\ outcome = [k \in 1..Len(TaskIDs) |-> "none"]
    /\ fetched = [k \in 1..Len(TaskIDs) |-> NoTask]
    /\ calls = NoCalls(TaskIDs)
    /\ earlier = <<>>
    /\ InitOthers(InitStore)

(***************************************************************************)
(* BulkComplete, the calling goroutine.                                    *)
(***************************************************************************)
\* the entry with the empty-list check lost
BulkCompleteStartNoEmptyCheck ==
    /\ pc = "call"
    /\ IF ~Atoi(userID).ok
       THEN /\ ret' = [resp |-> NoResponse, err |-> ErrInvalidUserID]
            /\ pc' = "returned"
            /\ UNCHANGED <<userIDInt, workers, feeder>>
       ELSE /\ userIDInt' = Atoi(userID).val
            /\ workers' = [w \in {WorkerRange} |-> numWorkers]
            /\ feeder' = [pc |-> "send", next |-> 1]
            /\ pc' = "wait"
            /\ ret' = ret
    /\ UNCHANGED <<userID, TaskIDs, store, now, taskIDsChan, resultsChan, i,
                   successCount, failedIDs, outcome, fetched,
                   calls, earlier, others>>

\* the entry with the error of strconv.Atoi(userID) ignored
BulkCompleteStartNoUserCheck ==
    /\ pc = "call"
    /\ IF Len(TaskIDs) = 0
       THEN /\ ret' = [resp |-> NoResponse, err |-> ErrNoTaskIDs]
            /\ pc' = "returned"
            /\ UNCHANGED <<userIDInt, workers, feeder>>
       ELSE /\ userIDInt' = Atoi(userID).val
            /\ workers' = [w \in {WorkerRange} |-> numWorkers]
            /\ feeder' = [pc |-> "send", next |-> 1]
            /\ pc' = "wait"
            /\ ret' = ret
    /\ UNCHANGED <<userID, TaskIDs, store, now, taskIDsChan, resultsChan, i,
                   successCount, failedIDs, outcome, fetched,
                   calls, earlier, others>>

\* the entry starting one worker per identifier instead of numWorkers
BulkCompleteStartWorkerPerTask ==
    /\ pc = "call"
    /\ IF Len(TaskIDs) = 0
       THEN /\ ret' = [resp |-> NoResponse, err |-> ErrNoTaskIDs]
            /\ pc' = "returned"
            /\ UNCHANGED <<userIDInt, workers, feeder>>
       ELSE IF ~Atoi(userID).ok
       THEN /\ ret' = [resp |-> NoResponse, err |-> ErrInvalidUserID]
            /\ pc' = "returned"
            /\ UNCHANGED <<userIDInt, workers, feeder>>
       ELSE /\ userIDInt' = Atoi(userID).val
            /\ workers' = [w \in {WorkerRange} |-> Len(TaskIDs)]
            /\ feeder' = [pc |-> "send", next |-> 1]
            /\ pc' = "wait"
            /\ ret' = ret
    /\ UNCHANGED <<userID, TaskIDs, store, now, taskIDsChan, resultsChan, i,
                   successCount, failedIDs, outcome, fetched,
                   calls, earlier, others>>

\* entry: the two request checks, then channels, workers and feeder are made
BulkCompleteStart ==
    /\ pc = "call"
    /\ IF Len(TaskIDs) = 0
       THEN /\ ret' = [resp |-> NoResponse, err |-> ErrNoTaskIDs]
            /\ pc' = "returned"
            /\ UNCHANGED <<userIDInt, workers, feeder>>
       ELSE IF ~Atoi(userID).ok
       THEN /\ ret' = [resp |-> NoResponse, err |-> ErrInvalidUserID]
            /\ pc' = "returned"
            /\ UNCHANGED <<userIDInt, workers, feeder>>
       ELSE /\ userIDInt' = Atoi(userID).val
            /\ workers' = [w \in {WorkerRange} |-> numWorkers]
            /\ feeder' = [pc |-> "send", next |-> 1]
            /\ pc' = "wait"
            /\ ret' = ret
    /\ UNCHANGED <<userID, TaskIDs, store, now, taskIDsChan, resultsChan, i,
                   successCount, failedIDs, outcome, fetched,
                   calls, earlier, others>>

\* the feeder with a send that gives up when taskIDsChan is full
\* (select with a default case)
FeederSendDropsWhenFull ==
    /\ feeder.pc = "send"
    /\ feeder.next <= Len(TaskIDs)
    /\ taskIDsChan' = IF Len(taskIDsChan.buf) < numWorkers
                      THEN [taskIDsChan EXCEPT !.buf = Append(@, feeder.next)]
                      ELSE taskIDsChan
    /\ feeder' = [feeder EXCEPT !.next = @ + 1]
    /\ UNCHANGED <<userID, TaskIDs, store, now, pc, userIDInt, resultsChan, workers,
                   i, successCount, failedIDs, ret, outcome, fetched,
                   calls, earlier, others>>

\* the feeder: taskIDsChan <- taskID
FeederSend ==
    /\ feeder.pc = "send"
    /\ feeder.next <= Len(TaskIDs)
    /\ Len(taskIDsChan.buf) < numWorkers
    /\ taskIDsChan' = [taskIDsChan EXCEPT !.buf = Append(@, feeder.next)]
    /\ feeder' = [feeder EXCEPT !.next = @ + 1]
    /\ UNCHANGED <<userID, TaskIDs, store, now, pc, userIDInt, resultsChan, workers,
                   i, successCount, failedIDs, ret, outcome, fetched,
                   calls, earlier, others>>

\* the feeder with close(taskIDsChan) inside its loop, after a send
FeederCloseInLoop ==
    /\ feeder.pc = "send"
    /\ feeder.next > 1
    /\ taskIDsChan' = [taskIDsChan EXCEPT !.closed = TRUE]
    /\ feeder' = [feeder EXCEPT !.pc = "done"]
    /\ UNCHANGED <<userID, TaskIDs, store, now, pc, userIDInt, resultsChan, workers,
                   i, successCount, failedIDs, ret, outcome, fetched,
                   calls, earlier, others>>

\* the feeder: close(taskIDsChan)
FeederClose ==
    /\ feeder.pc = "send"
    /\ feeder.next > Len(TaskIDs)
    /\ taskIDsChan' = [taskIDsChan EXCEPT !.closed = TRUE]
    /\ feeder' = [feeder EXCEPT !.pc = "done"]
    /\ UNCHANGED <<userID, TaskIDs, store, now, pc, userIDInt, resultsChan, workers,
                   i, successCount, failedIDs, ret, outcome, fetched,
                   calls, earlier, others>>

(***************************************************************************)
(* The worker goroutines.                                                  *)
(***************************************************************************)
\* for taskID := range taskIDsChan: a value is received
WorkerRecv ==
    /\ WorkerRange \in BagToSet(workers)
    /\ taskIDsChan.buf # <<>>
    /\ workers' = Step(WorkerRange, [WorkerRange EXCEPT !.pc = "GetByID",
                                                        !.k = Head(taskIDsChan.buf)])
    /\ taskIDsChan' = [taskIDsChan EXCEPT !.buf = Tail(@)]
    /\ calls' = [calls EXCEPT ![Head(taskIDsChan.buf)].dequeue = @ + 1]
    /\ UNCHANGED <<userID, TaskIDs, store, now, pc, userIDInt, resultsChan, feeder,
                   i, successCount, failedIDs, ret, outcome, fetched, earlier, others>>

\* for taskID := range taskIDsChan: the channel is closed and drained, the
\* loop ends and the deferred wg.Done() runs
WorkerExit ==
    /\ WorkerRange \in BagToSet(workers)
    /\ taskIDsChan.buf = <<>>
    /\ taskIDsChan.closed
    /\ workers' = Step(WorkerRange, WorkerDone)
    /\ UNCHANGED <<userID, TaskIDs, store, now, pc, userIDInt, taskIDsChan,
                   resultsChan, feeder, i, successCount, failedIDs, ret, outcome, fetched,
                   calls, earlier, others>>

\* the worker with "return" where the code has "continue": after a failed
\* GetByID it sends the error and leaves the loop
WorkerGetByIDReturns(w) ==
    /\ w.pc = "GetByID"
    /\ LET got == GetByID(TaskIDs[w.k], userID, store)
       IN  IF got.err # Nil
           THEN /\ Len(resultsChan.buf) < Len(TaskIDs)
                /\ resultsChan' = [resultsChan EXCEPT !.buf = Append(@, got.err)]
                /\ workers' = Step(w, WorkerDone)
                /\ outcome' = [outcome EXCEPT ![w.k] = got.err]
                /\ fetched' = fetched
           ELSE /\ workers' = Step(w, [w EXCEPT !.pc = "Update",
                                                !.existingTask = got.task])
                /\ outcome' = outcome
                /\ fetched' = [fetched EXCEPT ![w.k] = Fetched(got.task)]
                /\ resultsChan' = resultsChan
    /\ calls' = [calls EXCEPT ![w.k].GetByID = @ + 1]
    /\ UNCHANGED <<userID, TaskIDs, store, now, pc, userIDInt, taskIDsChan,
                   feeder, i, successCount, failedIDs, ret, earlier, others>>

\* existingTask, err := s.GetByID(ctx, taskID, userID)
WorkerGetByID(w) ==
    /\ w.pc = "GetByID"
    /\ LET got == GetByID(TaskIDs[w.k], userID, store)
       IN  IF got.err # Nil
           THEN /\ workers' = Step(w, [w EXCEPT !.pc = "send", !.err = got.err])
                /\ outcome' = [outcome EXCEPT ![w.k] = got.err]
                /\ fetched' = fetched
           ELSE /\ workers' = Step(w, [w EXCEPT !.pc = "Update",
                                                !.existingTask = got.task])
                /\ outcome' = outcome
                /\ fetched' = [fetched EXCEPT ![w.k] = Fetched(got.task)]
    /\ calls' = [calls EXCEPT ![w.k].GetByID = @ + 1]
    /\ UNCHANGED <<userID, TaskIDs, store, now, pc, userIDInt, taskIDsChan,
                   resultsChan, feeder, i, successCount, failedIDs, ret, earlier, others>>

\* the worker with the error of strconv.Atoi(taskID) ignored: taskIDInt is 0
\* and the task goes to s.taskRepo.Update
WorkerUpdateIgnoresAtoiError(w, execOK) ==
    /\ w.pc = "Update"
    /\ LET taskIDInt == Atoi(TaskIDs[w.k])
           task == DoneTask(taskIDInt.val, userIDInt, w.existingTask, now)
           upd == Update(task, store, execOK)
       IN  /\ workers' = Step(w, [w EXCEPT !.pc = "send", !.err = upd.err])
           /\ outcome' = [outcome EXCEPT ![w.k] = upd.err]
           /\ store' = upd.store
           /\ now' = now + 1
           /\ calls' = [calls EXCEPT ![w.k].Update = @ + 1]
    /\ UNCHANGED <<userID, TaskIDs, pc, userIDInt, taskIDsChan, resultsChan, feeder,
                   i, successCount, failedIDs, ret, fetched, earlier, others>>

\* taskIDInt, err := strconv.Atoi(taskID); the task is built with time.Now()
\* and handed to s.taskRepo.Update
WorkerUpdate(w, execOK) ==
    /\ w.pc = "Update"
    /\ LET taskIDInt == Atoi(TaskIDs[w.k])
           task == DoneTask(taskIDInt.val, userIDInt, w.existingTask, now)
           upd == Update(task, store, execOK)
       IN  IF ~taskIDInt.ok
           THEN /\ workers' = Step(w, [w EXCEPT !.pc = "send", !.err = ErrInvalidTaskID])
                /\ outcome' = [outcome EXCEPT ![w.k] = ErrInvalidTaskID]
                /\ UNCHANGED <<store, now, calls>>
           ELSE /\ workers' = Step(w, [w EXCEPT !.pc = "send", !.err = upd.err])
                /\ outcome' = [outcome EXCEPT ![w.k] = upd.err]
                /\ store' = upd.store
                /\ now' = now + 1
                /\ calls' = [calls EXCEPT ![w.k].Update = @ + 1]
    /\ UNCHANGED <<userID, TaskIDs, pc, userIDInt, taskIDsChan, resultsChan, feeder,
                   i, successCount, failedIDs, ret, fetched, earlier, others>>

\* the send on a resultsChan made with the capacity of taskIDsChan
WorkerSendCapNumWorkers(w) ==
    /\ w.pc = "send"
    /\ IF resultsChan.closed
       THEN /\ workers' = Step(w, [w EXCEPT !.pc = "panic"])
            /\ resultsChan' = resultsChan
       ELSE /\ Len(resultsChan.buf) < numWorkers
            /\ resultsChan' = [resultsChan EXCEPT !.buf = Append(@, w.err)]
            /\ workers' = Step(w, WorkerRange)
    /\ UNCHANGED <<userID, TaskIDs, store, now, pc, userIDInt, taskIDsChan, feeder,
                   i, successCount, failedIDs, ret, outcome, fetched,
                   calls, earlier, others>>

\* resultsChan <- err (or nil), then back to the range loop; the send waits
\* while the buffer is full and panics on a closed channel
WorkerSend(w) ==
    /\ w.pc = "send"
    /\ IF resultsChan.closed
       THEN /\ workers' = Step(w, [w EXCEPT !.pc = "panic"])
            /\ resultsChan' = resultsChan
       ELSE /\ Len(resultsChan.buf) < Len(TaskIDs)
            /\ resultsChan' = [resultsChan EXCEPT !.buf = Append(@, w.err)]
            /\ workers' = Step(w, WorkerRange)
    /\ UNCHANGED <<userID, TaskIDs, store, now, pc, userIDInt, taskIDsChan, feeder,
                   i, successCount, failedIDs, ret, outcome, fetched,
                   calls, earlier, others>>

(***************************************************************************)
(* BulkComplete after the fan-out.                                         *)
(***************************************************************************)
\* close(resultsChan) with the wg.Wait() before it lost
WaitAndCloseNoWait ==
    /\ pc = "wait"
    /\ resultsChan' = [resultsChan EXCEPT !.closed = TRUE]
    /\ pc' = "collect"
    /\ UNCHANGED <<userID, TaskIDs, store, now, userIDInt, taskIDsChan, feeder,
                   workers, i, successCount, failedIDs, ret, outcome, fetched,
                   calls, earlier, others>>

\* wg.Wait() returns once every worker ran wg.Done(); close(resultsChan)
WaitAndClose ==
    /\ pc = "wait"
    /\ CopiesIn(WorkerDone, workers) = numWorkers
    /\ resultsChan' = [resultsChan EXCEPT !.closed = TRUE]
    /\ pc' = "collect"
    /\ UNCHANGED <<userID, TaskIDs, store, now, userIDInt, taskIDsChan, feeder,
                   workers, i, successCount, failedIDs, ret, outcome, fetched,
                   calls, earlier, others>>

\* Classify with the else lost: successCount++ runs after either branch
ClassifyNoElse(err, taskID, sc, failed) ==
    IF err # Nil
    THEN [successCount |-> sc + 1, failedIDs |-> Append(failed, taskID)]
    ELSE [successCount |-> sc + 1, failedIDs |-> failed]

\* Classify with its test turned round: "if err == nil"
ClassifyTestsNil(err, taskID, sc, failed) ==
    IF err = Nil
    THEN [successCount |-> sc, failedIDs |-> Append(failed, taskID)]
    ELSE [successCount |-> sc + 1, failedIDs |-> failed]

\* Classify putting a failed identifier in front of failedIDs
ClassifyPrepends(err, taskID, sc, failed) ==
    IF err # Nil
    THEN [successCount |-> sc, failedIDs |-> <<taskID>> \o failed]
    ELSE [successCount |-> sc + 1, failedIDs |-> failed]

\* the body of "if err != nil { failedIDs = append(...) } else { successCount++ }"
Classify(err, taskID, sc, failed) ==
    IF err # Nil
    THEN [successCount |-> sc, failedIDs |-> Append(failed, taskID)]
    ELSE [successCount |-> sc + 1, failedIDs |-> failed]

\* the iteration without its second receive: every delivered outcome is
\* classified
CollectEveryOutcome ==
    /\ pc = "collect"
    /\ i < Len(TaskIDs)
    /\ LET err == Recv(resultsChan, Nil)
           rest == AfterRecv(resultsChan)
           c == Classify(err, TaskIDs[i + 1], successCount, failedIDs)
       IN  /\ successCount' = c.successCount
           /\ failedIDs' = c.failedIDs
           /\ resultsChan' = rest
    /\ i' = i + 1
    /\ UNCHANGED <<userID, TaskIDs, store, now, pc, userIDInt, taskIDsChan, feeder,
                   workers, ret, outcome, fetched,
                   calls, earlier, others>>

\* one iteration of "for i, taskID := range req.TaskIDs": a receive that is
\* classified under taskID and, unless this is the last iteration, a second
\* receive whose value is dropped
Collect ==
    /\ pc = "collect"
    /\ i < Len(TaskIDs)
    /\ LET err == Recv(resultsChan, Nil)
           rest == AfterRecv(resultsChan)
           c == Classify(err, TaskIDs[i + 1], successCount, failedIDs)
       IN  /\ successCount' = c.successCount
           /\ failedIDs' = c.failedIDs
           /\ resultsChan' = IF i + 1 < Len(TaskIDs) THEN AfterRecv(rest) ELSE rest
    /\ i' = i + 1
    /\ UNCHANGED <<userID, TaskIDs, store, now, pc, userIDInt, taskIDsChan, feeder,
                   workers, ret, outcome, fetched,
                   calls, earlier, others>>

\* return &dto.BulkCompleteResponse{...}, nil
BulkCompleteResponse(sc, failed) ==
    [SuccessCount |-> sc, FailedCount |-> Len(failed), FailedIDs |-> failed]

Return ==
    /\ pc = "collect"
    /\ i = Len(TaskIDs)
    /\ ret' = [resp |-> BulkCompleteResponse(successCount, failedIDs), err |-> Nil]
    /\ pc' = "returned"
    /\ UNCHANGED <<userID, TaskIDs, store, now, userIDInt, taskIDsChan, resultsChan,
                   feeder, workers, i, successCount, failedIDs, outcome, fetched,
                   calls, earlier, others>>

Next ==
    \/ BulkCompleteStart
    \/ FeederSend
    \/ FeederClose
    \/ WorkerRecv
    \/ WorkerExit
    \/ \E w \in BagToSet(workers) : WorkerGetByID(w)
    \/ \E w \in BagToSet(workers), execOK \in BOOLEAN : WorkerUpdate(w, execOK)
    \/ \E w \in BagToSet(workers) : WorkerSend(w)
    \/ WaitAndClose
    \/ Collect
    \/ Return

Spec == Init /\ [][Next]_vars

(***************************************************************************)
(* BulkComplete called by user A with requests shorter than, as long as    *)
(* and longer than the worker pool.                                        *)
(***************************************************************************)
InitOn(uids, reqs, st) ==
    /\ userID \in uids
    /\ TaskIDs \in reqs
    /\ store = st
    /\ now = 1
    /\ pc = "call"
    /\ userIDInt = 0
    /\ taskIDsChan = MakeChan
    /\ resultsChan = MakeChan
    /\ feeder = [pc |-> "none", next |-> 1]
    /\ workers = EmptyBag
    /\ i = 0
    /\ successCount = 0
    /\ failedIDs = <<>>
    /\ ret = [resp |-> NoResponse, err |-> Nil]
    /\ outcome = [k \in 1..Len(TaskIDs) |-> "none"]
    /\ fetched = [k \in 1..Len(TaskIDs) |-> NoTask]
    /\ calls = NoCalls(TaskIDs)
    /\ earlier = <<>>
    /\ InitOthers(st)

InitLong == InitOn({Itoa(UserA)}, LongRequests, InitStore)

SpecLong == InitLong /\ [][Next]_vars

\* the Go scheduler runs every goroutine that can take a step: the calling
\* goroutine, the feeder and the workers
Caller == BulkCompleteStart \/ WaitAndClose \/ Collect \/ Return
Feeder == FeederSend \/ FeederClose
Workers ==
    \/ WorkerRecv
    \/ WorkerExit
    \/ \E w \in BagToSet(workers) : WorkerGetByID(w)
    \/ \E w \in BagToSet(workers), execOK \in BOOLEAN : WorkerUpdate(w, execOK)
    \/ \E w \in BagToSet(workers) : WorkerSend(w)

Fairness == WF_vars(Caller) /\ WF_vars(Feeder) /\ WF_vars(Workers)

InitFair == InitOn({Itoa(UserA)}, FairRequests, InitStore)

FairSpec == InitFair /\ [][Next]_vars /\ Fairness

(***************************************************************************)
(* BulkComplete called by user A for six tasks of A, one more than there   *)
(* are workers, on a store that accepts every write.                       *)
(***************************************************************************)
InitAccepting == InitOn({Itoa(UserA)}, {AllOwned6}, LongStore)

NextAccepting ==
    \/ BulkCompleteStart
    \/ FeederSend
    \/ FeederClose
    \/ WorkerRecv
    \/ WorkerExit
    \/ \E w \in BagToSet(workers) : WorkerGetByID(w)
    \/ \E w \in BagToSet(workers) : WorkerUpdate(w, TRUE)
    \/ \E w \in BagToSet(workers) : WorkerSend(w)
    \/ WaitAndClose
    \/ Collect
    \/ Return

SpecAccepting == InitAccepting /\ [][NextAccepting]_vars

(***************************************************************************)
(* BulkComplete called again by user A with the same request after the     *)
(* call before it returned: the store and the clock stay, everything the   *)
(* function makes per call is made anew.                                   *)
(***************************************************************************)
\* requests naming tasks of A only
OwnedRequests == SeqsUpTo({T1, T2, T1Spaced}, 2) \ {<<>>}

InitTwice == InitOn({Itoa(UserA)}, OwnedRequests, InitStore)

CallAgain ==
    /\ pc = "returned"
    /\ Len(earlier) + 1 < MaxCalls
    /\ earlier' = Append(earlier, [ret |-> ret, outcome |-> outcome])
    /\ pc' = "call"
    /\ userIDInt' = 0
    /\ taskIDsChan' = MakeChan
    /\ resultsChan' = MakeChan
    /\ feeder' = [pc |-> "none", next |-> 1]
    /\ workers' = EmptyBag
    /\ i' = 0
    /\ successCount' = 0
    /\ failedIDs' = <<>>
    /\ ret' = [resp |-> NoResponse, err |-> Nil]
    /\ outcome' = [k \in 1..Len(TaskIDs) |-> "none"]
    /\ fetched' = [k \in 1..Len(TaskIDs) |-> NoTask]
    /\ calls' = NoCalls(TaskIDs)
    /\ UNCHANGED <<userID, TaskIDs, store, now, others>>

NextTwice == Next \/ CallAgain

SpecTwice == InitTwice /\ [][NextTwice]_vars

(***************************************************************************)
(* The single-task calls of taskService, made by either user while         *)
(* BulkComplete runs. The store here is the table without its task_status  *)
(* type, so that it is the service that has to keep a bad status out.      *)
(***************************************************************************)
ErrInvalidStatus == "invalid task status"
ErrCreateExec == "failed to create task"
ErrDeleteExec == "failed to delete task"
ErrDeleteNoRows == "task not found or not owned by user"

\* TaskStatus.IsValid
IsValid(status) == status \in {TaskStatusTodo, TaskStatusInProgress, TaskStatusDone}

\* taskRepository.Create: INSERT ... RETURNING id
RepoCreate(task, st, last, execOK) ==
    IF ~execOK THEN [store |-> st, serial |-> last, err |-> ErrCreateExec]
    ELSE [store |-> st @@ ((last + 1) :>
                     [id |-> last + 1, user_id |-> task.UserID, title |-> task.Title,
                      description |-> task.Description, status |-> task.Status,
                      created_at |-> task.CreatedAt, updated_at |-> task.UpdatedAt]),
          serial |-> last + 1, err |-> Nil]

\* queryDeleteTask with the id condition lost: WHERE user_id = $2
DeleteMatchesUserOnly(id, uid, st) ==
    {r \in DOMAIN st : st[r].user_id = PgInt4In(uid).val}

\* the rows queryDeleteTask matches: WHERE id = $1 AND user_id = $2, both
\* handed over as text
DeleteMatches(id, uid, st) ==
    {r \in DOMAIN st : st[r].id = PgInt4In(id).val /\ st[r].user_id = PgInt4In(uid).val}

\* taskRepository.Delete
RepoDelete(id, uid, st, execOK) ==
    IF ~execOK \/ ~PgInt4In(id).ok \/ ~PgInt4In(uid).ok
    THEN [store |-> st, err |-> ErrDeleteExec]
    ELSE IF DeleteMatches(id, uid, st) = {} THEN [store |-> st, err |-> ErrDeleteNoRows]
    ELSE [store |-> [r \in DOMAIN st \ DeleteMatches(id, uid, st) |-> st[r]], err |-> Nil]

\* the workers that hold a fetched copy of row id and have not persisted it
HoldingCopyOf(id) ==
    {w.k : w \in {x \in BagToSet(workers) : x.pc = "Update" /\ x.existingTask.id = id}}

\* a new call can start: the one before it returned
CanCall == op.pc \in {"none", "returned"} /\ op.n < MaxOps

\* what every call records: its kind and arguments
Called(kind, taskID, uid, req) ==
    [pc |-> "returned", n |-> op.n + 1, kind |-> kind, taskID |-> taskID, userID |-> uid,
     req |-> req, task |-> NoTask, err |-> Nil, raced |-> {}]

\* taskService.Create with the status validation lost
ServiceCreateNoStatusCheck(uid, req, execOK) ==
    /\ CanCall
    /\ LET call == Called("Create", <<>>, uid, req)
           task == [UserID |-> Atoi(uid).val, Title |-> req.Title,
                    Description |-> req.Description, Status |-> req.Status,
                    CreatedAt |-> now, UpdatedAt |-> now + 1]
           made == RepoCreate(task, store, serial, execOK)
       IN  IF ~Atoi(uid).ok
           THEN /\ op' = [call EXCEPT !.err = ErrInvalidUserID]
                /\ UNCHANGED <<store, serial, now>>
           ELSE /\ op' = [call EXCEPT !.err = made.err,
                                      !.task = IF made.err = Nil
                                               THEN made.store[made.serial] ELSE NoTask]
                /\ store' = made.store
                /\ serial' = made.serial
                /\ now' = now + 2
    /\ UNCHANGED <<userID, TaskIDs, pc, userIDInt, taskIDsChan, resultsChan, feeder,
                   workers, i, successCount, failedIDs, ret, outcome, fetched, calls,
                   earlier, ginCtx, tx>>

\* taskService.Create
ServiceCreate(uid, req, execOK) ==
    /\ CanCall
    /\ LET call == Called("Create", <<>>, uid, req)
           task == [UserID |-> Atoi(uid).val, Title |-> req.Title,
                    Description |-> req.Description, Status |-> req.Status,
                    CreatedAt |-> now, UpdatedAt |-> now + 1]
           made == RepoCreate(task, store, serial, execOK)
       IN  IF ~IsValid(req.Status)
           THEN /\ op' = [call EXCEPT !.err = ErrInvalidStatus]
                /\ UNCHANGED <<store, serial, now>>
           ELSE IF ~Atoi(uid).ok
           THEN /\ op' = [call EXCEPT !.err = ErrInvalidUserID]
                /\ UNCHANGED <<store, serial, now>>
           ELSE /\ op' = [call EXCEPT !.err = made.err,
                                      !.task = IF made.err = Nil
                                               THEN made.store[made.serial] ELSE NoTask]
                /\ store' = made.store
                /\ serial' = made.serial
                /\ now' = now + 2
    /\ UNCHANGED <<userID, TaskIDs, pc, userIDInt, taskIDsChan, resultsChan, feeder,
                   workers, i, successCount, failedIDs, ret, outcome, fetched, calls,
                   earlier, ginCtx, tx>>

\* taskService.GetByID called for its own sake, the ownership verification lost
ServiceGetByIDNoOwnerCheck(taskID, uid) ==
    /\ CanCall
    /\ LET got == GetByIDNoOwnerCheck(taskID, uid, store)
       IN  op' = [Called("GetByID", taskID, uid, NoTask) EXCEPT !.task = got.task,
                                                               !.err = got.err]
    /\ UNCHANGED <<userID, TaskIDs, store, now, pc, userIDInt, taskIDsChan, resultsChan,
                   feeder, workers, i, successCount, failedIDs, ret, outcome, fetched,
                   calls, earlier, serial, ginCtx, tx>>

\* taskService.GetByID called for its own sake
ServiceGetByID(taskID, uid) ==
    /\ CanCall
    /\ LET got == GetByID(taskID, uid, store)
       IN  op' = [Called("GetByID", taskID, uid, NoTask) EXCEPT !.task = got.task,
                                                               !.err = got.err]
    /\ UNCHANGED <<userID, TaskIDs, store, now, pc, userIDInt, taskIDsChan, resultsChan,
                   feeder, workers, i, successCount, failedIDs, ret, outcome, fetched,
                   calls, earlier, serial, ginCtx, tx>>

\* taskService.Update up to its GetByID
ServiceUpdateGet(taskID, uid, req) ==
    /\ CanCall
    /\ LET call == Called("Update", taskID, uid, req)
           got == GetByID(taskID, uid, store)
       IN  IF ~IsValid(req.Status)
           THEN op' = [call EXCEPT !.err = ErrInvalidStatus]
           ELSE IF got.err # Nil
           THEN op' = [call EXCEPT !.err = got.err]
           ELSE op' = [call EXCEPT !.pc = "Update", !.task = got.task]
    /\ UNCHANGED <<userID, TaskIDs, store, now, pc, userIDInt, taskIDsChan, resultsChan,
                   feeder, workers, i, successCount, failedIDs, ret, outcome, fetched,
                   calls, earlier, serial, ginCtx, tx>>

\* taskService.Update from the field assignments on: s.taskRepo.Update
ServiceUpdatePersist(execOK) ==
    /\ op.pc = "Update"
    /\ LET task == [ID |-> op.task.id, UserID |-> op.task.user_id, Title |-> op.req.Title,
                    Description |-> op.req.Description, Status |-> op.req.Status,
                    UpdatedAt |-> now]
           upd == Update(task, store, execOK)
       IN  /\ store' = upd.store
           /\ op' = [op EXCEPT !.pc = "returned", !.err = upd.err,
                               !.raced = IF upd.err = Nil THEN HoldingCopyOf(task.ID) ELSE {}]
    /\ now' = now + 1
    /\ UNCHANGED <<userID, TaskIDs, pc, userIDInt, taskIDsChan, resultsChan, feeder,
                   workers, i, successCount, failedIDs, ret, outcome, fetched, calls,
                   earlier, serial, ginCtx, tx>>

\* taskService.Delete up to its GetByID
ServiceDeleteGet(taskID, uid) ==
    /\ CanCall
    /\ LET call == Called("Delete", taskID, uid, NoTask)
           got == GetByID(taskID, uid, store)
       IN  IF got.err # Nil
           THEN op' = [call EXCEPT !.err = got.err]
           ELSE op' = [call EXCEPT !.pc = "Delete", !.task = got.task]
    /\ UNCHANGED <<userID, TaskIDs, store, now, pc, userIDInt, taskIDsChan, resultsChan,
                   feeder, workers, i, successCount, failedIDs, ret, outcome, fetched,
                   calls, earlier, serial, ginCtx, tx>>

\* taskService.Delete: s.taskRepo.Delete
ServiceDeletePersist(execOK) ==
    /\ op.pc = "Delete"
    /\ LET del == RepoDelete(op.taskID, op.userID, store, execOK)
       IN  /\ store' = del.store
           /\ op' = [op EXCEPT !.pc = "returned", !.err = del.err,
                               !.raced = IF del.err = Nil THEN HoldingCopyOf(op.task.id) ELSE {}]
    /\ UNCHANGED <<userID, TaskIDs, now, pc, userIDInt, taskIDsChan, resultsChan, feeder,
                   workers, i, successCount, failedIDs, ret, outcome, fetched, calls,
                   earlier, serial, ginCtx, tx>>

\* the requests the single-task calls are made with
OpTaskIDs == {T1, T3, T9}
OpUserIDs == {Itoa(UserA), Itoa(UserB)}
OpRequests ==
    {[Title |-> "x", Description |-> "y", Status |-> st] : st \in {TaskStatusTodo, "bogus"}}

ConcRequests == {<<T1>>, <<T3, T1>>}

InitConc == InitOn({Itoa(UserA)}, ConcRequests, InitStore)

\* the single-task calls, one after the other
NextOps ==
    \/ \E uid \in OpUserIDs, req \in OpRequests, execOK \in BOOLEAN :
           ServiceCreate(uid, req, execOK)
    \/ \E taskID \in OpTaskIDs, uid \in UserIDs : ServiceGetByID(taskID, uid)
    \/ \E taskID \in OpTaskIDs, uid \in OpUserIDs, req \in OpRequests :
           ServiceUpdateGet(taskID, uid, req)
    \/ \E execOK \in BOOLEAN : ServiceUpdatePersist(execOK)
    \/ \E taskID \in OpTaskIDs, uid \in OpUserIDs : ServiceDeleteGet(taskID, uid)
    \/ \E execOK \in BOOLEAN : ServiceDeletePersist(execOK)

NextConc == Next \/ NextOps

SpecConc == InitConc /\ [][NextConc]_vars

(***************************************************************************)
(* A request to a protected task route: AuthMiddleware, then the task      *)
(* handler unless the middleware aborted the chain.                        *)
(***************************************************************************)
Bearer == <<"B", "e", "a", "r", "e", "r">>
bearerLower == <<"b", "e", "a", "r", "e", "r">>

\* the tokens GenerateToken signed with the secret and that have not expired,
\* with their claims; every other text fails ValidateToken
Issued ==
    (<<"j", "a">> :> [UserID |-> Itoa(UserA), Email |-> "a@x"]) @@
    (<<"j", "b">> :> [UserID |-> Itoa(UserB), Email |-> "b@x"])

\* utils.ValidateToken
ValidateToken(token) ==
    IF token \in DOMAIN Issued
    THEN [claims |-> Issued[token], ok |-> TRUE]
    ELSE [claims |-> [UserID |-> <<>>, Email |-> ""], ok |-> FALSE]

\* strings.Split(s, " ")
RECURSIVE Split(_)
Split(str) ==
    IF \A j \in 1..Len(str) : str[j] # " " THEN <<str>>
    ELSE LET at == CHOOSE j \in 1..Len(str) :
                       str[j] = " " /\ \A m \in 1..(j - 1) : str[m] # " "
         IN  <<SubSeq(str, 1, at - 1)>> \o Split(SubSeq(str, at + 1, Len(str)))

\* the words of a header, joined by single spaces
RECURSIVE Join(_)
Join(words) ==
    IF words = <<>> THEN <<>>
    ELSE IF Len(words) = 1 THEN words[1]
    ELSE words[1] \o <<" ">> \o Join(Tail(words))

HeaderWords == {Bearer, bearerLower, <<"j", "a">>, <<"j", "b">>, <<"j", "z">>, <<>>}

Headers == {Join(words) : words \in SeqsUpTo(HeaderWords, MaxParts)}

\* the gin.Context of a request that has reached the task routes' group
Request(header) ==
    [pc |-> "AuthMiddleware", header |-> header, status |-> 0, keys |-> <<>>,
     handled |-> FALSE]

\* AuthMiddleware with c.Abort() lost after the 401 for a token that fails
\* validation: gin goes on to the next handler of the chain
AuthMiddlewareNoAbort ==
    /\ ginCtx.pc = "AuthMiddleware"
    /\ LET authHeader == ginCtx.header
           parts == Split(authHeader)
           valid == ValidateToken(parts[2])
       IN  IF authHeader = <<>>
           THEN ginCtx' = [ginCtx EXCEPT !.status = 401, !.pc = "aborted"]
           ELSE IF Len(parts) # 2 \/ parts[1] # Bearer
           THEN ginCtx' = [ginCtx EXCEPT !.status = 401, !.pc = "aborted"]
           ELSE IF ~valid.ok
           THEN ginCtx' = [ginCtx EXCEPT !.status = 401, !.pc = "Next"]
           ELSE ginCtx' = [ginCtx EXCEPT !.keys = [user_id |-> valid.claims.UserID,
                                                  email |-> valid.claims.Email],
                                        !.pc = "Next"]
    /\ UNCHANGED <<userID, TaskIDs, store, now, pc, userIDInt, taskIDsChan, resultsChan,
                   feeder, workers, i, successCount, failedIDs, ret, outcome, fetched,
                   calls, earlier, op, serial, tx>>

\* the handler AuthMiddleware returns, up to c.Next()
AuthMiddleware ==
    /\ ginCtx.pc = "AuthMiddleware"
    /\ LET authHeader == ginCtx.header
           parts == Split(authHeader)
           valid == ValidateToken(parts[2])
       IN  IF authHeader = <<>>
           THEN ginCtx' = [ginCtx EXCEPT !.status = 401, !.pc = "aborted"]
           ELSE IF Len(parts) # 2 \/ parts[1] # Bearer
           THEN ginCtx' = [ginCtx EXCEPT !.status = 401, !.pc = "aborted"]
           ELSE IF ~valid.ok
           THEN ginCtx' = [ginCtx EXCEPT !.status = 401, !.pc = "aborted"]
           ELSE ginCtx' = [ginCtx EXCEPT !.keys = [user_id |-> valid.claims.UserID,
                                                  email |-> valid.claims.Email],
                                        !.pc = "Next"]
    /\ UNCHANGED <<userID, TaskIDs, store, now, pc, userIDInt, taskIDsChan, resultsChan,
                   feeder, workers, i, successCount, failedIDs, ret, outcome, fetched,
                   calls, earlier, op, serial, tx>>

\* c.Next(): the route's task handler runs and answers
TaskHandler ==
    /\ ginCtx.pc = "Next"
    /\ ginCtx' = [ginCtx EXCEPT !.handled = TRUE, !.pc = "done",
                                !.status = IF @ = 0 THEN 200 ELSE @]
    /\ UNCHANGED <<userID, TaskIDs, store, now, pc, userIDInt, taskIDsChan, resultsChan,
                   feeder, workers, i, successCount, failedIDs, ret, outcome, fetched,
                   calls, earlier, op, serial, tx>>

\* no BulkComplete call is made: its variables rest
NoBulkCall ==
    /\ userID = Itoa(UserA)
    /\ TaskIDs = <<>>
    /\ store = InitStore
    /\ now = 1
    /\ pc = "none"
    /\ userIDInt = 0
    /\ taskIDsChan = MakeChan
    /\ resultsChan = MakeChan
    /\ feeder = [pc |-> "none", next |-> 1]
    /\ workers = EmptyBag
    /\ i = 0
    /\ successCount = 0
    /\ failedIDs = <<>>
    /\ ret = [resp |-> NoResponse, err |-> Nil]
    /\ outcome = <<>>
    /\ fetched = <<>>
    /\ calls = <<>>
    /\ earlier = <<>>

InitAuth ==
    /\ NoBulkCall
    /\ op = NoOp
    /\ serial = LastID(InitStore)
    /\ tx = NoTx
    /\ ginCtx \in {Request(header) : header \in Headers}

NextAuth == AuthMiddleware \/ TaskHandler

SpecAuth == InitAuth /\ [][NextAuth]_vars

(***************************************************************************)
(* WithTransaction: BeginTxx, fn(tx), then Commit or Rollback.  The fields *)
(* commits and rollbacks count the calls of tx.Commit and tx.Rollback.     *)
(***************************************************************************)
MaxTx == 2

ErrBeginTx == "failed to begin transaction"
ErrRollbackTx == "failed to rollback transaction"
ErrCommitTx == "failed to commit transaction"

\* the interface value nil handed to panic, and what recover() returns for it
\* when the runtime turns it into a *runtime.PanicNilError
PanicNil == "panic(nil)"
PanicNilError == "panic called with nil argument"

\* the ways a call of fn(tx) ends: it returns nil or an error, it panics
\* with a value or with nil, or it ends its goroutine (runtime.Goexit)
NoFn == [kind |-> "none", err |-> Nil, p |-> Nil]
FnOutcomes ==
    {[kind |-> "return", err |-> e, p |-> Nil] : e \in {Nil, ErrCreateExec, ErrUpdateExec}}
    \cup {[kind |-> "panic", err |-> Nil, p |-> v] : v \in {"p", PanicNil}}
    \cup {[kind |-> "Goexit", err |-> Nil, p |-> Nil]}

\* what the callers of the calls before this one got
Seen == IF tx.pc = "none" THEN <<>> ELSE Append(tx.seen, [pc |-> tx.pc, ret |-> tx.ret])

\* tx, err := db.BeginTxx(ctx, nil) and the return on its error
TxBegin(beginOK) ==
    /\ tx.pc \in {"none", "returned", "panicked", "exited"}
    /\ tx.n < MaxTx
    /\ tx' = [pc |-> IF beginOK THEN "fn" ELSE "returned", n |-> tx.n + 1, seen |-> Seen,
              begun |-> beginOK, fnCalls |-> 0, commits |-> 0, rollbacks |-> 0,
              fn |-> NoFn, rbErr |-> Nil,
              ret |-> IF beginOK THEN Nil ELSE ErrBeginTx, raised |-> Nil]
    /\ UNCHANGED <<userID, TaskIDs, store, now, pc, userIDInt, taskIDsChan, resultsChan,
                   feeder, workers, i, successCount, failedIDs, ret, outcome, fetched,
                   calls, earlier, op, serial, ginCtx>>

\* err := fn(tx)
TxFn(out) ==
    /\ tx.pc = "fn"
    /\ tx' = [tx EXCEPT !.fnCalls = @ + 1, !.fn = out,
                        !.pc = IF out.kind # "return" THEN "deferred"
                               ELSE IF out.err # Nil THEN "rollback"
                               ELSE "commit"]
    /\ UNCHANGED <<userID, TaskIDs, store, now, pc, userIDInt, taskIDsChan, resultsChan,
                   feeder, workers, i, successCount, failedIDs, ret, outcome, fetched,
                   calls, earlier, op, serial, ginCtx>>

\* if rbErr := tx.Rollback(); rbErr != nil { return ... }; return err
TxRollback(rollbackOK) ==
    /\ tx.pc = "rollback"
    /\ tx' = [tx EXCEPT !.rollbacks = @ + 1,
                        !.rbErr = IF rollbackOK THEN Nil ELSE ErrRollbackTx,
                        !.ret = IF rollbackOK THEN tx.fn.err ELSE ErrRollbackTx,
                        !.pc = "returned"]
    /\ UNCHANGED <<userID, TaskIDs, store, now, pc, userIDInt, taskIDsChan, resultsChan,
                   feeder, workers, i, successCount, failedIDs, ret, outcome, fetched,
                   calls, earlier, op, serial, ginCtx>>

\* if err := tx.Commit(); err != nil { return ... }; return nil
TxCommit(commitOK) ==
    /\ tx.pc = "commit"
    /\ tx' = [tx EXCEPT !.commits = @ + 1,
                        !.ret = IF commitOK THEN Nil ELSE ErrCommitTx,
                        !.pc = "returned"]
    /\ UNCHANGED <<userID, TaskIDs, store, now, pc, userIDInt, taskIDsChan, resultsChan,
                   feeder, workers, i, successCount, failedIDs, ret, outcome, fetched,
                   calls, earlier, op, serial, ginCtx>>

\* what recover() returns in the deferred function: nil when the goroutine is
\* exiting; for panic(nil) nil or a *runtime.PanicNilError, as the build's
\* panicnil setting decides (README: Go 1.20+)
Recover(out, panicnil) ==
    IF out.kind = "Goexit" THEN Nil
    ELSE IF out.p # PanicNil THEN out.p
    ELSE IF panicnil THEN Nil
    ELSE PanicNilError

\* the deferred function when fn did not return:
\* if p := recover(); p != nil { tx.Rollback(); panic(p) }
TxDeferred(panicnil) ==
    /\ tx.pc = "deferred"
    /\ LET p == Recover(tx.fn, panicnil)
       IN  IF p # Nil
           THEN tx' = [tx EXCEPT !.rollbacks = @ + 1, !.raised = p, !.pc = "panicked"]
           ELSE IF tx.fn.kind = "Goexit"
           THEN tx' = [tx EXCEPT !.pc = "exited"]
           ELSE tx' = [tx EXCEPT !.pc = "returned"]
    /\ UNCHANGED <<userID, TaskIDs, store, now, pc, userIDInt, taskIDsChan, resultsChan,
                   feeder, workers, i, successCount, failedIDs, ret, outcome, fetched,
                   calls, earlier, op, serial, ginCtx>>

InitTx ==
    /\ NoBulkCall
    /\ op = NoOp
    /\ serial = LastID(InitStore)
    /\ ginCtx = NoRequest
    /\ tx = NoTx

NextTx ==
    \/ \E beginOK \in BOOLEAN : TxBegin(beginOK)
    \/ \E out \in FnOutcomes : TxFn(out)
    \/ \E rollbackOK \in BOOLEAN : TxRollback(rollbackOK)
    \/ \E commitOK \in BOOLEAN : TxCommit(commitOK)
    \/ \E panicnil \in BOOLEAN : TxDeferred(panicnil)

SpecTx == InitTx /\ [][NextTx]_vars

(***************************************************************************)
(* The single-task calls alone, with no BulkComplete running.              *)
(***************************************************************************)
InitOps ==
    /\ NoBulkCall
    /\ op = NoOp
    /\ serial = LastID(InitStore)
    /\ ginCtx = NoRequest
    /\ tx = NoTx

SpecOps == InitOps /\ [][NextOps]_vars

(***************************************************************************)
(* Properties.                                                             *)
(***************************************************************************)
Range(s) == {s[j] : j \in 1..Len(s)}

Positions == 1..Len(TaskIDs)

\* BulkComplete has returned a response with a nil error
ReturnedResult == pc = "returned" /\ ret.err = Nil

\* the outcomes with which a worker's call of taskRepo.Update ends
UpdateOutcomes == {Nil, ErrUpdateExec, ErrUpdateNoRows}

\* C1: when BulkComplete returns a response, every input identifier whose
\* processing failed (its worker produced a non-nil outcome) is in FailedIDs.
C1_EveryFailureListed ==
    ReturnedResult =>
        \A k \in Positions :
            outcome[k] # Nil => TaskIDs[k] \in Range(ret.resp.FailedIDs)

\* C2: when BulkComplete returns a response, an identifier is in FailedIDs
\* only if the processing of that identifier (at some position of the
\* input) failed.
C2_OnlyFailuresListed ==
    ReturnedResult =>
        \A id \in Range(ret.resp.FailedIDs) :
            \E k \in Positions : TaskIDs[k] = id /\ outcome[k] # Nil

\* C3: SuccessCount is the number of nil outcomes the workers produced and
\* FailedCount the number of non-nil outcomes.
C3_CountsMatchOutcomes ==
    ReturnedResult =>
        /\ ret.resp.SuccessCount = Cardinality({k \in Positions : outcome[k] = Nil})
        /\ ret.resp.FailedCount = Cardinality({k \in Positions : outcome[k] # Nil})

\* C4: for every returned response SuccessCount + FailedCount is the length
\* of the input list and FailedCount is the length of FailedIDs.
C4_CountsReconcile ==
    ReturnedResult =>
        /\ ret.resp.SuccessCount + ret.resp.FailedCount = Len(TaskIDs)
        /\ ret.resp.FailedCount = Len(ret.resp.FailedIDs)

\* a response over three or more identifiers that mixes successes and failures
C4_Witness ==
    /\ ReturnedResult
    /\ Len(TaskIDs) >= 3
    /\ ret.resp.SuccessCount > 0
    /\ ret.resp.FailedCount > 0
    /\ \E k \in Positions : outcome[k] = ErrUpdateExec

\* C5: user A owns T1 (todo) and T2 (in_progress), user B owns T3; with a
\* store that accepts every write BulkComplete(A, [T1, T2, T3, "nonexistent"])
\* returns {2, 2, [T3, "nonexistent"]}, T1 and T2 end done and T3 is unchanged.
C5_Scenario ==
    ( /\ ReturnedResult
      /\ userID = Itoa(UserA)
      /\ TaskIDs = ScenarioTaskIDs
      /\ \A k \in Positions : outcome[k] # ErrUpdateExec )
    => /\ ret.resp = [SuccessCount |-> 2, FailedCount |-> 2,
                      FailedIDs |-> <<T3, nonexistent>>]
       /\ store[1].status = TaskStatusDone
       /\ store[2].status = TaskStatusDone
       /\ store[3] = InitStore[3]

\* the task an input identifier resolved to when the call was made, if any
AtCall(k) == FindByID(TaskIDs[k], InitStore)

\* the user the caller's userID string stands for owns task t
OwnedByCaller(t) == Itoa(t.user_id) = userID

\* no call of taskRepo.Update of this BulkComplete was rejected by the store
StoreAcceptedEveryWrite == \A k \in Positions : outcome[k] # ErrUpdateExec

\* C6: in every state, each task owned by a user other than the requesting
\* one has all its fields as they were when BulkComplete was called.
C6_OtherUsersTasksUntouched ==
    \A r \in DOMAIN InitStore :
        ~OwnedByCaller(InitStore[r]) => r \in DOMAIN store /\ store[r] = InitStore[r]

\* the caller named another user's task, its fetch was refused, and one of the
\* caller's own tasks was persisted by the same call
C6_Witness ==
    /\ ReturnedResult
    /\ \E k \in Positions :
          /\ AtCall(k).err = Nil
          /\ ~OwnedByCaller(AtCall(k).task)
          /\ outcome[k] = ErrAccessDenied
    /\ \E k \in Positions : outcome[k] = Nil

\* C7: taskRepo.Update has been invoked for an input position only if the
\* GetByID of that same identifier returned a task, the one the identifier
\* names, whose owner is the requesting user.
C7_UpdateOnlyAfterOwnedFetch ==
    \A k \in Positions :
        outcome[k] \in UpdateOutcomes =>
            /\ fetched[k] # NoTask
            /\ fetched[k].id = PgInt4In(TaskIDs[k]).val
            /\ OwnedByCaller(fetched[k])

\* an Update was invoked after an owned fetch while the fetch of another
\* position was refused for ownership and led to no Update
C7_Witness ==
    /\ \E k \in Positions : outcome[k] \in UpdateOutcomes /\ fetched[k] # NoTask
    /\ \E k \in Positions : outcome[k] = ErrAccessDenied /\ fetched[k] = NoTask

\* C8 as stated: after BulkComplete returns, with a store that accepted every
\* write, every input identifier that resolved to a task owned by the
\* requesting user at call time has status done.
C8_EveryOwnedIdentifierDone ==
    (ReturnedResult /\ StoreAcceptedEveryWrite) =>
        \A k \in Positions :
            (AtCall(k).err = Nil /\ OwnedByCaller(AtCall(k).task))
                => store[AtCall(k).task.id].status = TaskStatusDone

\* C8 amended: after BulkComplete returns, with a store that accepted every
\* write, every input identifier that strconv.Atoi accepts and that resolved
\* to a task owned by the requesting user at call time has status done.
C8_EveryOwnedIntegerIdentifierDone ==
    (ReturnedResult /\ StoreAcceptedEveryWrite) =>
        \A k \in Positions :
            (Atoi(TaskIDs[k]).ok /\ AtCall(k).err = Nil /\ OwnedByCaller(AtCall(k).task))
                => store[AtCall(k).task.id].status = TaskStatusDone

\* a returned call that turned an owned task that was not done into a done one
C8_Witness ==
    /\ ReturnedResult
    /\ StoreAcceptedEveryWrite
    /\ \E k \in Positions :
          /\ Atoi(TaskIDs[k]).ok
          /\ AtCall(k).err = Nil
          /\ OwnedByCaller(AtCall(k).task)
          /\ AtCall(k).task.status # TaskStatusDone
          /\ store[AtCall(k).task.id].status = TaskStatusDone

\* C9: BulkComplete being the only writer, every task keeps the title and
\* description it had when the call was made.
C9_TitleDescriptionKept ==
    \A r \in DOMAIN InitStore :
        /\ r \in DOMAIN store
        /\ store[r].title = InitStore[r].title
        /\ store[r].description = InitStore[r].description

\* a returned call that persisted a task
C9_Witness ==
    /\ ReturnedResult
    /\ \E r \in DOMAIN store :
          /\ store[r].status = TaskStatusDone
          /\ store[r].updated_at > InitStore[r].updated_at

\* C10: with an empty ID list BulkComplete returns the "no task IDs" error
\* and no response, starts no worker and no feeder, and leaves the store
\* as it was.
C10_EmptyListRejected ==
    Len(TaskIDs) = 0 =>
        /\ pc \in {"call", "returned"}
        /\ pc = "returned" => ret = [resp |-> NoResponse, err |-> ErrNoTaskIDs]
        /\ workers = EmptyBag
        /\ feeder.pc = "none"
        /\ store = InitStore

\* a call with an empty list and a parseable user ID has returned
C10_Witness ==
    /\ Len(TaskIDs) = 0
    /\ Atoi(userID).ok
    /\ pc = "returned"
    /\ ret.err = ErrNoTaskIDs

\* no worker or feeder exists and no position was dequeued, fetched or written
NothingStarted ==
    /\ workers = EmptyBag
    /\ feeder.pc = "none"
    /\ calls = NoCalls(TaskIDs)
    /\ store = InitStore

\* C11: a userID that strconv.Atoi rejects makes BulkComplete return
\* "invalid user ID" with no response before any task is fetched or written,
\* the store staying as it was; and BulkComplete returns an error only for an
\* empty list or such a userID.
C11_InvalidUserIDRejectedFirst ==
    /\ (Len(TaskIDs) > 0 /\ ~Atoi(userID).ok) =>
           /\ pc \in {"call", "returned"}
           /\ NothingStarted
           /\ pc = "returned" => ret = [resp |-> NoResponse, err |-> ErrInvalidUserID]
    /\ (pc = "returned" /\ ret.err # Nil) =>
           \/ Len(TaskIDs) = 0 /\ ret.err = ErrNoTaskIDs
           \/ ~Atoi(userID).ok /\ ret.err = ErrInvalidUserID

C11_Witness ==
    /\ pc = "returned"
    /\ Len(TaskIDs) = MaxLen
    /\ ~Atoi(userID).ok
    /\ ret = [resp |-> NoResponse, err |-> ErrInvalidUserID]
    /\ NothingStarted

\* C12: a failing item never aborts the batch: each position is dequeued at
\* most once and fetched at most once at any time, once the workers have
\* finished each position was dequeued once and fetched once whatever the
\* other items did, and the call that got past its two request checks returns
\* a response with nil error.
C12_EveryItemFetchedOnce ==
    /\ \A k \in Positions : calls[k].dequeue <= 1 /\ calls[k].GetByID <= 1
    /\ (pc = "collect" \/ ReturnedResult) =>
           \A k \in Positions : calls[k].dequeue = 1 /\ calls[k].GetByID = 1
    /\ (pc = "returned" /\ Len(TaskIDs) > 0 /\ Atoi(userID).ok) =>
           ret.err = Nil /\ ret.resp # NoResponse

C12_Witness ==
    /\ pc = "returned"
    /\ TaskIDs = FiveFailThenOwned
    /\ \A k \in 1..numWorkers : outcome[k] \notin UpdateOutcomes
    /\ outcome[Len(TaskIDs)] = Nil
    /\ \A k \in Positions : calls[k].dequeue = 1 /\ calls[k].GetByID = 1
    /\ ret.err = Nil

\* every goroutine the call started has ended and every position has its
\* outcome
AllTerminated ==
    /\ CopiesIn(WorkerDone, workers) = numWorkers
    /\ BagCardinality(workers) = numWorkers
    /\ feeder.pc = "done"
    /\ \A k \in Positions : outcome[k] # "none"

\* C13: BulkComplete does not go on to collect or return while a worker is
\* processing: from wg.Wait() on, all five workers and the feeder have ended
\* and every store operation has completed, and after the return no step
\* reads or writes the store for this call.
C13_ReturnsAfterWorkers ==
    /\ []((pc = "collect" \/ ReturnedResult) => AllTerminated)
    /\ [][pc = "returned" => (store' = store /\ calls' = calls /\ workers' = workers)]_vars

C13_Witness ==
    /\ ReturnedResult
    /\ Len(TaskIDs) = MaxLen
    /\ AllTerminated
    /\ \E k \in Positions : calls[k].Update = 1

\* a worker at "resultsChan <- ..." finds room in the open channel
NoSendBlocks ==
    \A w \in BagToSet(workers) :
        w.pc = "send" => Len(resultsChan.buf) < Len(TaskIDs) /\ ~resultsChan.closed

\* C14: under fair scheduling of the goroutines every call returns, for
\* requests shorter than, as long as and longer than the worker pool and for
\* every mix of succeeding and failing items, and no worker ever waits at the
\* send of its outcome.
C14_EveryCallReturns ==
    /\ <>(pc = "returned")
    /\ []NoSendBlocks

C14_Witness ==
    /\ pc = "returned"
    /\ Len(TaskIDs) > numWorkers
    /\ Len(resultsChan.buf) = 0
    /\ \E k \in Positions : outcome[k] = Nil
    /\ \E k \in Positions : outcome[k] = ErrTaskNotFound
    /\ \E k \in Positions : outcome[k] = ErrAccessDenied

\* the workers that hold an identifier and are in their GetByID or Update call
InStoreCall == {w \in BagToSet(workers) : w.pc \in {"GetByID", "Update"}}

InFlight == BagCardinality([w \in InStoreCall |-> CopiesIn(w, workers)])

\* C15: at no moment are more than five store operations in flight, however
\* long the request is.
C15_AtMostFiveInFlight == InFlight <= 5

C15_Witness ==
    /\ Len(TaskIDs) > numWorkers
    /\ InFlight = numWorkers
    /\ taskIDsChan.buf # <<>>

\* the identifiers of the request are pairwise different
AllDistinct == \A j, k \in Positions : TaskIDs[j] = TaskIDs[k] => j = k

\* position k names a row of st that the caller owns
OwnedIn(st, k) ==
    LET found == FindByID(TaskIDs[k], st)
    IN  found.err = Nil /\ OwnedByCaller(found.task)

StoreAcceptedEveryWriteSoFar ==
    /\ StoreAcceptedEveryWrite
    /\ \A c \in 1..Len(earlier) :
           \A k \in Positions : earlier[c].outcome[k] # ErrUpdateExec

\* the call that just returned reports every identifier as completed and
\* every named task is done
AllReportedDone ==
    /\ ret.resp = [SuccessCount |-> Len(TaskIDs), FailedCount |-> 0, FailedIDs |-> <<>>]
    /\ \A k \in Positions : FindByID(TaskIDs[k], store).task.status = TaskStatusDone

\* C17 as stated: BulkComplete called twice in sequence with the same list of
\* existing owned identifiers leaves every task done after each call and
\* reports SuccessCount = N with no FailedIDs both times (the store accepting
\* every write).
C17_Idempotent ==
    (/\ ReturnedResult
     /\ \A k \in Positions : OwnedIn(InitStore, k)
     /\ StoreAcceptedEveryWriteSoFar)
    => AllReportedDone

\* C17 amended: the same, for identifiers that strconv.Atoi accepts.
C17_IdempotentForIntegerIdentifiers ==
    (/\ ReturnedResult
     /\ \A k \in Positions : OwnedIn(InitStore, k) /\ Atoi(TaskIDs[k]).ok
     /\ StoreAcceptedEveryWriteSoFar)
    => AllReportedDone

C17_Witness ==
    /\ ReturnedResult
    /\ Len(earlier) = 1
    /\ TaskIDs = <<T1, T2>>
    /\ earlier[1].ret.resp.SuccessCount = Len(TaskIDs)
    /\ StoreAcceptedEveryWriteSoFar
    /\ AllReportedDone
    /\ \A k \in Positions : calls[k].Update = 1

\* a can be had from b by deleting elements
RECURSIVE IsSubseq(_, _)
IsSubseq(a, b) ==
    IF a = <<>> THEN TRUE
    ELSE IF b = <<>> THEN FALSE
    ELSE IF Head(a) = Head(b) THEN IsSubseq(Tail(a), Tail(b))
    ELSE IsSubseq(a, Tail(b))

\* C18: FailedIDs is a subsequence of the request's identifiers: what is in
\* it appears in input order, while it is built and in the response.
C18_FailedIDsInInputOrder ==
    /\ IsSubseq(failedIDs, TaskIDs)
    /\ ReturnedResult => IsSubseq(ret.resp.FailedIDs, TaskIDs)

C18_Witness ==
    /\ ReturnedResult
    /\ Len(ret.resp.FailedIDs) = 2
    /\ ret.resp.FailedIDs[1] # ret.resp.FailedIDs[2]
    /\ IsSubseq(ret.resp.FailedIDs, TaskIDs)

\* the positions whose identifier strconv.Atoi does not accept
NotInteger == {k \in Positions : ~Atoi(TaskIDs[k]).ok}

\* C19: an identifier that is no integer is a failure of that item: it is
\* never handed to taskRepo.Update, its worker produces an error for it, the
\* other identifiers are still fetched and get their outcome, and the call
\* returns a response with nil error.
C19_NonIntegerIsItemFailure ==
    /\ \A k \in NotInteger :
           calls[k].Update = 0 /\ outcome[k] \notin UpdateOutcomes
    /\ (pc = "collect" \/ ReturnedResult) =>
           /\ \A k \in NotInteger : outcome[k] # "none"
           /\ \A k \in Positions \ NotInteger :
                  calls[k].GetByID = 1 /\ outcome[k] # "none"
    /\ (pc = "returned" /\ Len(TaskIDs) > 0 /\ Atoi(userID).ok /\ NotInteger # {}) =>
           ret.err = Nil

C19_Witness ==
    /\ ReturnedResult
    /\ \E k \in NotInteger : outcome[k] = ErrInvalidTaskID /\ calls[k].Update = 0
    /\ \E k \in Positions \ NotInteger : outcome[k] = Nil /\ calls[k].Update = 1

\* every row has one owner, a user, and one of the three statuses
RowsWellFormed ==
    \A r \in DOMAIN store :
        /\ store[r].user_id \in {UserA, UserB}
        /\ store[r].status \in {"todo", "in_progress", "done"}

\* a step in which a Create or an Update asked for another status returns
RejectsOtherStatus ==
    (/\ op' # op
     /\ op'.kind \in {"Create", "Update"}
     /\ op'.req.Status \notin {"todo", "in_progress", "done"})
    => (op'.pc = "returned" /\ op'.err # Nil /\ store' = store)

\* C21: in every reachable state, whatever Create, Update, Delete and
\* BulkComplete calls were made, every task has one owning user and a status
\* among todo, in_progress, done; a Create or Update asking for any other
\* status returns an error and leaves the store as it was.
C21_OwnerAndStatusAlwaysValid ==
    /\ []RowsWellFormed
    /\ [][RejectsOtherStatus]_vars

C21_Witness ==
    /\ pc = "returned"
    /\ op.pc = "returned"
    /\ op.kind = "Update"
    /\ op.req.Status = "bogus"
    /\ op.err = ErrInvalidStatus
    /\ serial \in DOMAIN store
    /\ serial > LastID(InitStore)
    /\ \E r \in DOMAIN store : store[r].status = TaskStatusDone

\* the header is "Bearer <token>" for a token that validates
BearerOfValidToken(header) ==
    \E token \in DOMAIN Issued : header = Bearer \o <<" ">> \o token

\* C22: a request reaches the task handler only with an Authorization header
\* of the exact form "Bearer <token>" whose token validates; any other header
\* (none, not two space-separated parts, not starting with Bearer, a token
\* that fails validation) gets a 401, the handler is not invoked and user_id
\* is not set.
C22_HandlerOnlyBehindValidBearer ==
    /\ (ginCtx.pc # "none" /\ (ginCtx.handled \/ ginCtx.keys # <<>>)) =>
           BearerOfValidToken(ginCtx.header)
    /\ (ginCtx.pc \notin {"none", "AuthMiddleware"}
         /\ ~BearerOfValidToken(ginCtx.header)) =>
           /\ ginCtx.status = 401
           /\ ginCtx.pc = "aborted"
           /\ ~ginCtx.handled
           /\ ginCtx.keys = <<>>

C22_Witness ==
    /\ ginCtx.pc = "aborted"
    /\ ginCtx.status = 401
    /\ ginCtx.header = Bearer \o <<" ">> \o <<"j", "z">>

\* position k was fetched, belonged to the caller and its write succeeded
Completed(k) ==
    /\ fetched[k] # NoTask
    /\ Itoa(fetched[k].user_id) = userID
    /\ calls[k].Update = 1
    /\ outcome[k] = Nil

\* C23: for a request of exactly one identifier the result is exact:
\* SuccessCount 1 and no FailedIDs if and only if the task was fetched, owned
\* by the caller and updated; otherwise SuccessCount 0 and FailedIDs is that
\* one identifier.
C23_SingleIdentifierExact ==
    (ReturnedResult /\ Len(TaskIDs) = 1) =>
        IF Completed(1)
        THEN ret.resp = [SuccessCount |-> 1, FailedCount |-> 0, FailedIDs |-> <<>>]
        ELSE ret.resp = [SuccessCount |-> 0, FailedCount |-> 1, FailedIDs |-> <<TaskIDs[1]>>]

C23_Witness ==
    /\ ReturnedResult
    /\ Len(TaskIDs) = 1
    /\ ~Completed(1)
    /\ outcome[1] = ErrUpdateExec
    /\ ret.resp.FailedIDs = <<T1>>

\* the positions for which a worker produced an error
FailureOutcomes == {k \in Positions : outcome[k] \notin {"none", Nil}}

ChannelsInOrder ==
    /\ \A w \in BagToSet(workers) : w.pc # "panic"
    /\ Len(resultsChan.buf) <= Len(TaskIDs)
    /\ resultsChan.closed => CopiesIn(WorkerDone, workers) = numWorkers
    /\ (pc = "collect" /\ i = 0) => Len(resultsChan.buf) = Len(TaskIDs)
    /\ taskIDsChan.closed <=> feeder.pc = "done"
    /\ taskIDsChan.closed => feeder.next = Len(TaskIDs) + 1

\* the step that closes resultsChan finds one outcome per identifier in it,
\* and once taskIDsChan is closed the feeder does nothing more
ClosedOnce ==
    /\ (~resultsChan.closed /\ resultsChan'.closed) =>
           /\ Len(resultsChan.buf) = Len(TaskIDs)
           /\ \A k \in Positions : outcome[k] # "none"
    /\ taskIDsChan.closed => (taskIDsChan'.closed /\ feeder' = feeder)

\* C25: resultsChan is closed only after every worker sent its last outcome:
\* no worker sends on it closed, one outcome is sent per identifier (N in
\* all, never more than the capacity N), and taskIDsChan is closed once,
\* after the last identifier was enqueued.
C25_ChannelsClosedAfterLastSend ==
    /\ []ChannelsInOrder
    /\ [][ClosedOnce]_vars

C25_Witness ==
    /\ Len(TaskIDs) > numWorkers
    /\ resultsChan.closed
    /\ taskIDsChan.closed
    /\ Len(resultsChan.buf) = Len(TaskIDs)

\* the worker at position k fetched its task before the last single-task
\* Update wrote it, and persisted it with success afterwards
PersistedAfterUpdate(k) ==
    /\ op.pc = "returned"
    /\ op.kind = "Update"
    /\ op.err = Nil
    /\ k \in op.raced
    /\ calls[k].Update = 1
    /\ outcome[k] = Nil
    /\ op.task.id \in DOMAIN store

\* C26: no lost update: when the owner's Update changes a task's title or
\* description after a worker fetched the task and before the worker
\* persists it, the stored title and description after the persist are
\* those the Update wrote.
C26_NoLostUpdate ==
    \A k \in Positions :
        PersistedAfterUpdate(k) =>
            /\ store[op.task.id].title = op.req.Title
            /\ store[op.task.id].description = op.req.Description

\* a step of BulkComplete (no single-task call moves) keeps the rows, their
\* owners and their creation times
BulkCompleteKeepsRows ==
    op' = op =>
        /\ DOMAIN store' = DOMAIN store
        /\ \A r \in DOMAIN store :
               /\ store'[r].user_id = store[r].user_id
               /\ store'[r].created_at = store[r].created_at

\* the worker at position k fetched its task before the last single-task
\* Delete removed it, and has made its persist call since
PersistedAfterDelete(k) ==
    /\ op.pc = "returned"
    /\ op.kind = "Delete"
    /\ op.err = Nil
    /\ k \in op.raced
    /\ calls[k].Update = 1

DeletedStaysDeleted ==
    \A k \in Positions :
        PersistedAfterDelete(k) =>
            /\ op.task.id \notin DOMAIN store
            /\ outcome[k] \in {ErrUpdateNoRows, ErrUpdateExec}

\* C27: BulkComplete never creates or deletes a task and never changes a
\* task's owner or created_at; a task deleted between a worker's fetch and
\* its persist is not re-created, and that persist yields a failure.
C27_BulkCompleteKeepsTheRows ==
    /\ [][BulkCompleteKeepsRows]_vars
    /\ []DeletedStaysDeleted

C27_Witness ==
    \E k \in Positions :
        /\ PersistedAfterDelete(k)
        /\ outcome[k] = ErrUpdateNoRows
        /\ store # InitStore

\* the step is a whole call of taskService.GetByID
GetByIDCalled == op'.n = op.n + 1 /\ op'.kind = "GetByID"

\* no row of the store has the identifier the text names
NoSuchTask(taskID, st) == ~PgInt4In(taskID).ok \/ PgInt4In(taskID).val \notin DOMAIN st

OwnedByAnother(taskID, uid, st) ==
    /\ ~NoSuchTask(taskID, st)
    /\ Atoi(uid).ok => st[PgInt4In(taskID).val].user_id # Atoi(uid).val

\* what GetByID owes its caller
GetByIDGuardsOwner ==
    GetByIDCalled =>
        /\ store' = store
        /\ (\/ ~Atoi(op'.userID).ok
            \/ NoSuchTask(op'.taskID, store)
            \/ OwnedByAnother(op'.taskID, op'.userID, store))
               => (op'.err # Nil /\ op'.task = NoTask)
        /\ op'.err = Nil =>
               /\ op'.task = store[PgInt4In(op'.taskID).val]
               /\ op'.task.user_id = Atoi(op'.userID).val

\* C28: GetByID returns a task only to its owner: an error whenever the
\* user ID is unparseable, the task does not exist or belongs to another
\* user, never a task of another user, and the store is never modified.
C28_GetByIDOnlyForOwner == [][GetByIDGuardsOwner]_vars

C28_Witness ==
    /\ op.pc = "returned"
    /\ op.kind = "GetByID"
    /\ op.n = MaxOps
    /\ op.err = ErrAccessDenied
    /\ ~NoSuchTask(op.taskID, store)
    /\ store # InitStore

\* the step is the start of a call of taskService.Update or taskService.Delete
UpdateOrDeleteCalled == op'.n = op.n + 1 /\ op'.kind \in {"Update", "Delete"}

\* the step is the return of a taskService.Delete that succeeded
DeleteSucceeded == op.pc = "Delete" /\ op'.pc = "returned" /\ op'.err = Nil

RefusesAndDeletesExactly ==
    /\ (/\ UpdateOrDeleteCalled
        /\ \/ NoSuchTask(op'.taskID, store)
           \/ OwnedByAnother(op'.taskID, op'.userID, store))
           => (op'.pc = "returned" /\ op'.err # Nil /\ store' = store)
    /\ DeleteSucceeded =>
           /\ PgInt4In(op.taskID).val \in DOMAIN store
           /\ DOMAIN store' = DOMAIN store \ {PgInt4In(op.taskID).val}
           /\ \A r \in DOMAIN store' : store'[r] = store[r]

\* C29: Update and Delete called for a task that does not exist or that
\* another user owns return an error and leave the store unchanged; a Delete
\* that succeeds removes the named task and no other.
C29_UpdateDeleteRefuseOrRemoveOne == [][RefusesAndDeletesExactly]_vars

C29_Witness ==
    /\ op.pc = "returned"
    /\ op.kind = "Delete"
    /\ op.err = Nil
    /\ op.n = MaxOps
    /\ op.task.id \notin DOMAIN store
    /\ Cardinality(DOMAIN store) >= 2

\* the WithTransaction call is over: it returned, its panic went up to the
\* caller, or its goroutine ended
TxOver == tx.pc \in {"returned", "panicked", "exited"}

CommitOrRollback ==
    IF ~tx.begun
    THEN tx.fnCalls = 0 /\ tx.commits + tx.rollbacks = 0
    ELSE /\ tx.commits + tx.rollbacks = 1
         /\ tx.commits = 1 <=> (tx.fn.kind = "return" /\ tx.fn.err = Nil)
         /\ (tx.fn.kind = "return" /\ tx.fn.err # Nil /\ tx.rbErr = Nil)
                => tx.ret = tx.fn.err
         /\ tx.fn.kind = "panic" => (tx.pc = "panicked" /\ tx.rollbacks = 1)

\* C30: WithTransaction ends every transaction it begins with exactly one
\* of Commit or Rollback: Commit if and only if fn returns nil, Rollback
\* when fn returns an error (whose error is returned when the rollback
\* succeeds) or panics (the panic is raised again), and fn is never called
\* when the transaction cannot be begun.
C30_ExactlyOneCommitOrRollback == TxOver => CommitOrRollback

====
